---- MODULE Spec2Model ----
(***************************************************************************)
(* The data-preparation pipeline of the two Superstore dashboard scripts,  *)
(* hello.py and superstore_analysis.py: load, type coercion, derived       *)
(* columns, the three grouped views, and the hand-over of texts, charts    *)
(* and the raw table to the presentation layer, statement by statement.    *)
(*                                                                         *)
(* A table is a record [columns, dtypes, rows]; a row is a function from   *)
(* column label to cell.  Cells of the data source are text; coercion      *)
(* turns them into dates and integers.  Quotients are fractions [n, d],    *)
(* d >= 0, where d = 0 encodes the IEEE specials: 1/0 = +inf, -1/0 = -inf, *)
(* 0/0 = NaN.                                                              *)
(***************************************************************************)
EXTENDS Integers, Sequences, FiniteSets, TLC

VARIABLES variant, source, invocations, run, pc, error, df, views, shown, log, prev

vars == <<variant, source, invocations, run, pc, error, df, views, shown, log, prev>>

\* ------------------------------------------------------------------ bounds
MaxRows == 3
MaxFaultRows == 2
MaxRerunRows == 2
MaxRuns == 2

\* ------------------------------------------------------------- vocabulary
Variants == {"hello", "superstore_analysis"}

Columns == {"Order Date", "Sales", "Profit", "Category", "Region", "Discount"}

\* An empty cell of the source; the dataframe library reads it as missing.
NULL == ""

\* The value a missing date is parsed to (NaT).
NaT == [y |-> 0, m |-> 0, d |-> 0]

BadDate == "not a date"
BadNumber == "abc"

DateTexts == {"2023-01-05", "2023-01-20", "2023-02-01", "2023-03-15"}
NumberTexts == {"0", "20", "40", "50", "100", "200", "-10"}

\* ------------------------------------------------------------ conversions
\* pd.to_datetime on one cell: ISO text to a calendar date, missing to NaT.
IsDateTextMutantLenient(s) == TRUE

IsDateText(s) == s \in DateTexts \cup {NULL}

to_datetime(s) ==
    CASE s = "2023-01-05" -> [y |-> 2023, m |-> 1, d |-> 5]
      [] s = "2023-01-20" -> [y |-> 2023, m |-> 1, d |-> 20]
      [] s = "2023-02-01" -> [y |-> 2023, m |-> 2, d |-> 1]
      [] s = "2023-03-15" -> [y |-> 2023, m |-> 3, d |-> 15]
      [] OTHER -> NaT

\* pd.to_numeric / the CSV reader's number inference on one cell.
IsNumberText(s) == s \in NumberTexts

to_numeric(s) ==
    CASE s = "0" -> 0
      [] s = "20" -> 20
      [] s = "40" -> 40
      [] s = "50" -> 50
      [] s = "100" -> 100
      [] s = "200" -> 200
      [] s = "-10" -> 0 - 10
      [] OTHER -> 0

\* ------------------------------------------------------------- arithmetic
Abs(x) == IF x < 0 THEN 0 - x ELSE x

Sign(x) == IF x > 0 THEN 1 ELSE IF x < 0 THEN 0 - 1 ELSE 0

RECURSIVE GCD(_, _)
GCD(a, b) == IF b = 0 THEN a ELSE GCD(b, a % b)

\* The fraction n/d in lowest terms with a positive denominator (d # 0).
Norm(n, d) ==
    LET g == GCD(Abs(n), Abs(d))
        s == IF d < 0 THEN 0 - 1 ELSE 1
    IN [n |-> (s * n) \div g, d |-> (s * d) \div g]

PosInf == [n |-> 1, d |-> 0]
NegInf == [n |-> 0 - 1, d |-> 0]
NaN == [n |-> 0, d |-> 0]

IsFinite(f) == f.d # 0
IsNaN(f) == f = NaN

\* Float division p / s: no zero guard; x/0 is +inf or -inf by the sign of x,
\* and 0/0 is NaN.
DivideMutantZeroGuard(p, s) == IF s = 0 THEN [n |-> 0, d |-> 1] ELSE Norm(p, s)

Divide(p, s) == IF s = 0 THEN [n |-> Sign(p), d |-> 0] ELSE Norm(p, s)

FAdd(a, b) == Norm(a.n * b.d + b.n * a.d, a.d * b.d)

RECURSIVE SumInts(_)
SumInts(s) == IF s = <<>> THEN 0 ELSE Head(s) + SumInts(Tail(s))

RECURSIVE SumFracs(_)
SumFracs(s) == IF s = <<>> THEN [n |-> 0, d |-> 1] ELSE FAdd(Head(s), SumFracs(Tail(s)))

Range(s) == {s[i] : i \in DOMAIN s}

\* Series.sum() of a group's integer cells.
RECURSIVE MaxInts(_)
MaxInts(s) ==
    IF Len(s) = 1 THEN Head(s)
    ELSE LET m == MaxInts(Tail(s)) IN IF Head(s) > m THEN Head(s) ELSE m

sumMutantMax(s) == MaxInts(s)

sum(s) == SumInts(s)

\* Series.mean() of a group's fractions: NaN cells are skipped; an infinite
\* cell makes the mean infinite, both signs together make it NaN.
meanMutantSkipInf(s) ==
    LET fin == SelectSeq(s, LAMBDA f : IsFinite(f))
    IN IF fin = <<>> THEN NaN
       ELSE LET t == SumFracs(fin) IN Norm(t.n, t.d * Len(fin))

mean(s) ==
    LET kept == SelectSeq(s, LAMBDA f : ~IsNaN(f))
        fin == SelectSeq(kept, LAMBDA f : IsFinite(f))
    IN IF kept = <<>> THEN NaN
       ELSE IF PosInf \in Range(kept) /\ NegInf \in Range(kept) THEN NaN
       ELSE IF PosInf \in Range(kept) THEN PosInf
       ELSE IF NegInf \in Range(kept) THEN NegInf
       ELSE LET t == SumFracs(fin) IN Norm(t.n, t.d * Len(fin))

\* ------------------------------------------------------------------ dates
IsLeap(y) == (y % 4 = 0 /\ y % 100 # 0) \/ y % 400 = 0

DaysInMonth(y, m) ==
    IF m = 2 THEN (IF IsLeap(y) THEN 29 ELSE 28)
    ELSE IF m \in {4, 6, 9, 11} THEN 30 ELSE 31

\* The label pd.Grouper(freq='M') gives the bin of a date: its month's end.
MonthEndMutantQuarter(dt) ==
    LET q == ((dt.m + 2) \div 3) * 3
    IN [y |-> dt.y, m |-> q, d |-> DaysInMonth(dt.y, q)]

MonthEnd(dt) == [y |-> dt.y, m |-> dt.m, d |-> DaysInMonth(dt.y, dt.m)]

DateOrd(dt) == (dt.y * 12 + dt.m) * 32 + dt.d

\* ----------------------------------------------------------------- tables
\* A dataframe: its column labels, the dtype of each column, and its rows
\* in order.  A row maps each column label to a cell.
NoTable == [columns |-> {}, dtypes |-> <<>>, rows |-> <<>>]

Row(date, sales, profit, category, region, discount) ==
    ("Order Date" :> date) @@ ("Sales" :> sales) @@ ("Profit" :> profit)
        @@ ("Category" :> category) @@ ("Region" :> region) @@ ("Discount" :> discount)

\* df[c]: the cells of column c, in row order.
Column(t, c) == [i \in 1..Len(t.rows) |-> t.rows[i][c]]

\* df[c] = cells: adds or replaces column c, every other cell and the row
\* order unchanged.
SetColumnMutantReversed(t, c, dtype, cells) ==
    LET n == Len(t.rows)
    IN [columns |-> t.columns \cup {c},
        dtypes |-> [k \in t.columns \cup {c} |-> IF k = c THEN dtype ELSE t.dtypes[k]],
        rows |-> [i \in 1..n |->
                    [k \in t.columns \cup {c} |->
                        IF k = c THEN cells[n + 1 - i] ELSE t.rows[n + 1 - i][k]]]]

SetColumn(t, c, dtype, cells) ==
    [columns |-> t.columns \cup {c},
     dtypes |-> [k \in t.columns \cup {c} |-> IF k = c THEN dtype ELSE t.dtypes[k]],
     rows |-> [i \in 1..Len(t.rows) |->
                 [k \in t.columns \cup {c} |-> IF k = c THEN cells[i] ELSE t.rows[i][k]]]]

\* The source when there is nothing to read: no file at the path, no dataset
\* of that name.
Unavailable == [columns |-> {}, rows |-> <<>>]

\* get_df('superstore'): the connector hands over the dataset as stored.
get_df(src) ==
    [columns |-> src.columns,
     dtypes |-> [c \in src.columns |-> "object"],
     rows |-> src.rows]

\* pd.read_csv: a column whose filled cells are all numerals is read as
\* numbers, int64 when every cell is filled and float64 when some cell, or
\* every cell, is empty (the empty cell is missing, NaN); any other column
\* keeps its text.  A file of the header alone gives text columns.
InfersNumeric(src, c) ==
    /\ Len(src.rows) > 0
    /\ \A i \in 1..Len(src.rows) : src.rows[i][c] = NULL \/ IsNumberText(src.rows[i][c])

InferredDtype(src, c) ==
    IF ~InfersNumeric(src, c) THEN "object"
    ELSE IF \E i \in 1..Len(src.rows) : src.rows[i][c] = NULL THEN "float64"
    ELSE "int64"

read_csv(src) ==
    [columns |-> src.columns,
     dtypes |-> [c \in src.columns |-> InferredDtype(src, c)],
     rows |-> [i \in 1..Len(src.rows) |->
                 [c \in src.columns |->
                     IF InfersNumeric(src, c) /\ src.rows[i][c] # NULL
                     THEN to_numeric(src.rows[i][c])
                     ELSE src.rows[i][c]]]]

\* --------------------------------------------------------------- grouping
\* Lexicographic order of the category labels of the vocabulary.
CategoryRank(c) ==
    CASE c = "Furniture" -> 1
      [] c = "Office" -> 2
      [] c = "Tech" -> 3
      [] OTHER -> 0

\* The elements of S as a sequence in ascending rank.
RECURSIVE SortedBy(_, _)
SortedBy(S, rank) ==
    IF S = {} THEN <<>>
    ELSE LET m == CHOOSE x \in S : \A y \in S : rank[x] <= rank[y]
         IN <<m>> \o SortedBy(S \ {m}, rank)

\* groupby("Category"): the distinct non-missing labels, sorted; rows whose
\* label is missing belong to no group.
CategoryKeys(t) ==
    LET S == {t.rows[i]["Category"] : i \in 1..Len(t.rows)} \ {NULL}
    IN SortedBy(S, [c \in S |-> CategoryRank(c)])

CategoryGroup(t, c) == SelectSeq(t.rows, LAMBDA r : r["Category"] = c)

Cells(rows, c) == [i \in 1..Len(rows) |-> rows[i][c]]

AsFraction(x) == [n |-> x, d |-> 1]

\* df.groupby("Category").size().reset_index(): the count column is labelled 0.
groupby_size(t) ==
    LET keys == CategoryKeys(t)
    IN [j \in 1..Len(keys) |->
          ("Category" :> keys[j]) @@ ("0" :> Len(CategoryGroup(t, keys[j])))]

\* df.groupby("Category").agg({...}).reset_index()
groupby_agg(t, v) ==
    LET keys == CategoryKeys(t)
        base(c) ==
            LET g == CategoryGroup(t, c)
            IN ("Category" :> c) @@ ("Sales" :> sum(Cells(g, "Sales")))
                 @@ ("Profit" :> sum(Cells(g, "Profit")))
                 @@ ("Profit Margin" :> mean(Cells(g, "Profit Margin")))
        sizing(c) ==
            LET a == Cells(CategoryGroup(t, c), "Absolute Profit")
            IN "Absolute Profit" :> mean([i \in 1..Len(a) |-> AsFraction(a[i])])
    IN [j \in 1..Len(keys) |->
          IF v = "hello" THEN base(keys[j]) @@ sizing(keys[j]) ELSE base(keys[j])]

\* The time bucket of a date: its month's end under pd.Grouper(freq='M')
\* (hello.py), the date itself under groupby("Order Date")
\* (superstore_analysis.py).
BucketMutantYear(v, dt) == IF v = "hello" THEN [y |-> dt.y, m |-> 12, d |-> 31] ELSE dt

Bucket(v, dt) == IF v = "hello" THEN MonthEnd(dt) ELSE dt

\* Rows with a missing date or a missing category belong to no group.
Grouped(r) == r["Order Date"] # NaT /\ r["Category"] # NULL

TemporalKeysMutantFillEmpty(t, v) ==
    LET rs == {t.rows[i] : i \in 1..Len(t.rows)}
        B == {Bucket(v, r["Order Date"]) : r \in {x \in rs : Grouped(x)}}
        C == {r["Category"] : r \in {x \in rs : Grouped(x)}}
        S == B \X C
    IN SortedBy(S, [k \in S |-> DateOrd(k[1]) * 4 + CategoryRank(k[2])])

TemporalKeys(t, v) ==
    LET S == {<<Bucket(v, t.rows[i]["Order Date"]), t.rows[i]["Category"]>> :
                 i \in {j \in 1..Len(t.rows) : Grouped(t.rows[j])}}
    IN SortedBy(S, [k \in S |-> DateOrd(k[1]) * 4 + CategoryRank(k[2])])

TemporalGroup(t, v, k) ==
    SelectSeq(t.rows, LAMBDA r : Grouped(r) /\ Bucket(v, r["Order Date"]) = k[1]
                                   /\ r["Category"] = k[2])

\* pd.Grouper(freq='M') cuts its month bins between the earliest and the
\* latest date of the column.  A table that has rows but no date at all has
\* neither, and the grouping raises; plain groupby("Order Date") has no
\* bins to cut.
NoTimeBins(t, v) ==
    /\ v = "hello"
    /\ Len(t.rows) > 0
    /\ \A i \in 1..Len(t.rows) : t.rows[i]["Order Date"] = NaT

\* The exception the binning ends in, by the version of the library.
BinningErrors == {"AttributeError", "ValueError"}

\* groupby([bucket, "Category"])["Sales"].sum().reset_index(): whether the
\* call raises, and the view it returns when it does not.
groupby_temporal(t, v) ==
    IF NoTimeBins(t, v) THEN [raises |-> TRUE, view |-> <<>>]
    ELSE LET keys == TemporalKeys(t, v)
         IN [raises |-> FALSE,
             view |-> [j \in 1..Len(keys) |->
                         ("Order Date" :> keys[j][1]) @@ ("Category" :> keys[j][2])
                             @@ ("Sales" :> sum(Cells(TemporalGroup(t, v, keys[j]), "Sales")))]]

\* ------------------------------------------------------------- the inputs
\* The rows a source table is drawn from: the scenario's three rows, a
\* second month and a later month, zero Sales with positive, negative and
\* zero Profit, a missing category and a missing date.  Every Sales, Profit
\* and Discount cell holds text; arithmetic on a missing number is not
\* modelled.
RowPool ==
    { Row("2023-01-05", "100", "20", "Tech", "West", "0"),
      Row("2023-01-20", "50", "-10", "Tech", "East", "20"),
      Row("2023-02-01", "200", "40", "Office", "West", "0"),
      Row("2023-03-15", "50", "20", "Office", "East", "20"),
      Row("2023-01-05", "0", "20", "Furniture", "West", "0"),
      Row("2023-01-20", "0", "-10", "Tech", "East", "20"),
      Row("2023-02-01", "0", "0", "Office", "West", "0"),
      Row("2023-01-05", "100", "20", NULL, "East", "0"),
      Row(NULL, "50", "-10", "Tech", "West", "20") }

RowSeqs(n) == UNION {[1..k -> RowPool] : k \in 1..n}

CleanSources(n) == {[columns |-> Columns, rows |-> rs] : rs \in RowSeqs(n)}

\* A source without column c.
DropColumn(src, c) ==
    [columns |-> src.columns \ {c},
     rows |-> [i \in 1..Len(src.rows) |-> [k \in src.columns \ {c} |-> src.rows[i][k]]]]

\* A source whose cell (i, c) holds text that is neither a number nor a date.
CorruptCell(src, i, c) ==
    [columns |-> src.columns,
     rows |-> [j \in 1..Len(src.rows) |->
                 [k \in src.columns |->
                     IF j = i /\ k = c
                     THEN (IF c = "Order Date" THEN BadDate ELSE BadNumber)
                     ELSE src.rows[j][k]]]]

NumericColumns == {"Sales", "Profit", "Discount"}

FaultySources(n) ==
    {DropColumn(src, c) : src \in CleanSources(n), c \in Columns}
    \cup UNION {{CorruptCell(src, i, c) : i \in 1..Len(src.rows),
                                          c \in NumericColumns \cup {"Order Date"}} :
                src \in CleanSources(n)}

\* ------------------------------------------------------ the script's steps
HelloStepsMutantCountFirst ==
    << "Sidebar", "Load", "CountByCategory", "CoerceOrderDate", "CoerceSales",
       "CoerceProfit", "DeriveProfitMargin", "DeriveAbsoluteProfit", "ChartSales",
       "ChartProfit", "ChartSalesProfit", "ChartRegion", "CategoryMetrics",
       "ChartCategoryPerformance", "TemporalData", "ChartTemporal", "ChartMatrix",
       "ShowTable" >>

HelloSteps ==
    << "Sidebar", "Load", "CoerceOrderDate", "CoerceSales", "CoerceProfit",
       "DeriveProfitMargin", "DeriveAbsoluteProfit", "ChartSales", "ChartProfit",
       "CountByCategory", "ChartSalesProfit", "ChartRegion", "CategoryMetrics",
       "ChartCategoryPerformance", "TemporalData", "ChartTemporal", "ChartMatrix",
       "ShowTable" >>

AnalysisSteps ==
    << "Sidebar", "Load", "CoerceOrderDate", "DeriveProfitMargin", "ChartSales",
       "ChartProfit", "CountByCategory", "ChartSalesProfit", "ChartRegion",
       "CategoryMetrics", "ChartCategoryPerformance", "TemporalData", "ChartTemporal",
       "ChartMatrix" >>

Steps(v) == IF v = "hello" THEN HelloSteps ELSE AnalysisSteps

\* The statement that follows `step` in the script, top to bottom.
After(v, step) ==
    LET s == Steps(v)
        i == CHOOSE j \in 1..Len(s) : s[j] = step
    IN IF i = Len(s) THEN "done" ELSE s[i + 1]

Text(n) == [kind |-> "text", name |-> n]
SidebarText(n) == [kind |-> "sidebar", name |-> n]
Chart(n) == [kind |-> "chart", name |-> n]
Table(n) == [kind |-> "table", name |-> n]

NoViews == [n \in {} |-> <<>>]

Init ==
    /\ variant \in Variants
    /\ \/ /\ source \in CleanSources(MaxRows) \cup {Unavailable}
          /\ invocations = 1
       \/ /\ source \in CleanSources(MaxRerunRows)
          /\ invocations = MaxRuns
       \/ /\ source \in FaultySources(MaxFaultRows)
          /\ invocations = 1
    /\ run = 1
    /\ pc = "Sidebar"
    /\ error = ""
    /\ df = NoTable
    /\ views = NoViews
    /\ shown = <<>>
    /\ log = <<>>
    /\ prev = NoViews

\* The statement `step` completed: control moves to the next statement.
Proceed(step) ==
    /\ pc' = After(variant, step)
    /\ log' = Append(log, step)
    /\ error' = error

\* The statement raised: nothing catches it and the process ends.
Raise(kind) ==
    /\ pc' = "failed"
    /\ error' = kind
    /\ log' = log

\* A plotting call px.<kind>(table, ...): it raises when a column it is
\* told to read is not in the table, or when a marker size is negative or
\* NaN; otherwise the figure goes to the presentation layer, between the
\* texts written before and after it.
Plot(step, before, fig, reads, cols, sizesOk, after) ==
    /\ pc = step
    /\ IF reads \subseteq cols /\ sizesOk
       THEN /\ shown' = shown \o before \o <<Chart(fig)>> \o after
            /\ Proceed(step)
       ELSE /\ shown' = shown \o before
            /\ Raise("ValueError")
    /\ UNCHANGED <<variant, source, invocations, run, df, views, prev>>

Insights == <<Text("**Key Insights:**")>>

ValidSize(f) == ~IsNaN(f) /\ f.n >= 0

\* hello.py 24-27, superstore_analysis.py 9-13
Sidebar ==
    /\ pc = "Sidebar"
    /\ shown' = shown \o << SidebarText("# Superstore Saga"),
                           SidebarText("A Data Visualization Documentary"),
                           SidebarText("---"),
                           SidebarText("Explore the dramatic story") >>
    /\ Proceed("Sidebar")
    /\ UNCHANGED <<variant, source, invocations, run, df, views, prev>>

\* hello.py 30, superstore_analysis.py 16.  With nothing to read, read_csv
\* raises FileNotFoundError; the dataset connector of hello.py either raises
\* or hands over no table at all (None).
Load ==
    /\ pc = "Load"
    /\ IF source = Unavailable
       THEN /\ df' = df
            /\ IF variant = "hello"
               THEN Raise("Exception") \/ Proceed("Load")
               ELSE Raise("FileNotFoundError")
       ELSE /\ df' = IF variant = "hello" THEN get_df(source) ELSE read_csv(source)
            /\ Proceed("Load")
    /\ UNCHANGED <<variant, source, invocations, run, views, shown, prev>>

\* df[c] = pd.to_datetime(df[c]) / pd.to_numeric(df[c]): subscripting no
\* table (None) is a TypeError, a missing column a KeyError, one unparseable
\* cell a ValueError for the whole column.
Coerce(step, c, parses, cells, dtype) ==
    /\ pc = step
    /\ IF df.columns = {}
       THEN Raise("TypeError") /\ df' = df
       ELSE IF c \notin df.columns
       THEN Raise("KeyError") /\ df' = df
       ELSE IF ~parses
       THEN Raise("ValueError") /\ df' = df
       ELSE /\ df' = SetColumn(df, c, dtype, cells)
            /\ Proceed(step)
    /\ UNCHANGED <<variant, source, invocations, run, views, shown, prev>>

\* pd.to_datetime(df[c]) and pd.to_numeric(df[c]), cell by cell.
AllDates(t, c) == \A i \in 1..Len(t.rows) : IsDateText(t.rows[i][c])

AsDates(t, c) == [i \in 1..Len(t.rows) |-> to_datetime(t.rows[i][c])]

AllNumbers(t, c) ==
    \A i \in 1..Len(t.rows) : t.rows[i][c] = NULL \/ IsNumberText(t.rows[i][c])

AsNumbers(t, c) ==
    [i \in 1..Len(t.rows) |->
        IF t.rows[i][c] = NULL THEN NULL ELSE to_numeric(t.rows[i][c])]

\* The dtype of the converted column: float64 once a cell is missing.
NumberDtype(t, c) ==
    IF \E i \in 1..Len(t.rows) : t.rows[i][c] = NULL THEN "float64" ELSE "int64"

\* hello.py 31, superstore_analysis.py 17
CoerceOrderDate ==
    Coerce("CoerceOrderDate", "Order Date", AllDates(df, "Order Date"),
           AsDates(df, "Order Date"), "datetime64")

\* hello.py 33
CoerceSales ==
    Coerce("CoerceSales", "Sales", AllNumbers(df, "Sales"), AsNumbers(df, "Sales"),
           NumberDtype(df, "Sales"))

\* hello.py 34
CoerceProfit ==
    Coerce("CoerceProfit", "Profit", AllNumbers(df, "Profit"), AsNumbers(df, "Profit"),
           NumberDtype(df, "Profit"))

\* df["Profit"] / df["Sales"], row by row.
ProfitMargin(t) ==
    [i \in 1..Len(t.rows) |-> Divide(t.rows[i]["Profit"], t.rows[i]["Sales"])]

\* hello.py 35, superstore_analysis.py 18: text columns cannot be divided.
DeriveProfitMargin ==
    /\ pc = "DeriveProfitMargin"
    /\ IF ~({"Profit", "Sales"} \subseteq df.columns)
       THEN Raise("KeyError") /\ df' = df
       ELSE IF df.dtypes["Profit"] = "object" \/ df.dtypes["Sales"] = "object"
       THEN Raise("TypeError") /\ df' = df
       ELSE /\ df' = SetColumn(df, "Profit Margin", "float64", ProfitMargin(df))
            /\ Proceed("DeriveProfitMargin")
    /\ UNCHANGED <<variant, source, invocations, run, views, shown, prev>>

\* np.abs(df["Profit"]), row by row.
AbsoluteProfitMutantSigned(t) == [i \in 1..Len(t.rows) |-> t.rows[i]["Profit"]]

AbsoluteProfit(t) == [i \in 1..Len(t.rows) |-> Abs(t.rows[i]["Profit"])]

\* hello.py 37
DeriveAbsoluteProfit ==
    /\ pc = "DeriveAbsoluteProfit"
    /\ IF "Profit" \notin df.columns
       THEN Raise("KeyError") /\ df' = df
       ELSE /\ df' = SetColumn(df, "Absolute Profit", "int64", AbsoluteProfit(df))
            /\ Proceed("DeriveAbsoluteProfit")
    /\ UNCHANGED <<variant, source, invocations, run, views, shown, prev>>

\* hello.py 40-74, superstore_analysis.py 21-54
ChartSales ==
    Plot("ChartSales",
         << Text("# Welcome to the Superstore Saga"),
            Text("## A Data Visualization Documentary"),
            Text("This interactive dashboard"),
            Text("### How to Navigate"),
            Text("# Act 1: Understanding Our Core Metrics"),
            Text("## The Distribution of Sales") >>,
         "fig_sales", {"Sales"}, df.columns, TRUE, Insights)

\* hello.py 77-91, superstore_analysis.py 57-70
ChartProfit ==
    Plot("ChartProfit", <<Text("## The Story of Profits")>>,
         "fig_profit", {"Profit"}, df.columns, TRUE, Insights)

\* hello.py 94-110, superstore_analysis.py 73-87: the count view is built
\* inside the plotting call.
CountByCategory ==
    /\ pc = "CountByCategory"
    /\ IF "Category" \notin df.columns
       THEN /\ shown' = Append(shown, Text("## Product Categories: The Main Characters"))
            /\ views' = views
            /\ Raise("KeyError")
       ELSE /\ views' = ("category_counts" :> groupby_size(df)) @@ views
            /\ shown' = shown \o << Text("## Product Categories: The Main Characters"),
                                   Chart("fig_category") >> \o Insights
            /\ Proceed("CountByCategory")
    /\ UNCHANGED <<variant, source, invocations, run, df, prev>>

\* hello.py 113-131, superstore_analysis.py 90-106
ChartSalesProfit ==
    Plot("ChartSalesProfit",
         << Text("# Act 2: Exploring Relationships"), Text("## The Sales-Profit Dynamic") >>,
         "fig_sales_profit",
         IF variant = "hello" THEN {"Sales", "Profit", "Category"} ELSE {"Sales", "Profit"},
         df.columns, TRUE, Insights)

\* hello.py 134-149, superstore_analysis.py 109-122
ChartRegion ==
    Plot("ChartRegion", <<Text("## Regional Performance Analysis")>>,
         "fig_region", {"Region", "Profit Margin"}, df.columns, TRUE, Insights)

MetricsColumns(v) ==
    IF v = "hello" THEN {"Category", "Sales", "Profit", "Profit Margin", "Absolute Profit"}
    ELSE {"Category", "Sales", "Profit", "Profit Margin"}

\* hello.py 152-158, superstore_analysis.py 125-130
CategoryMetrics ==
    /\ pc = "CategoryMetrics"
    /\ shown' = Append(shown, Text("## Category Performance Deep Dive"))
    /\ IF ~(MetricsColumns(variant) \subseteq df.columns)
       THEN Raise("KeyError") /\ views' = views
       ELSE /\ views' = ("category_metrics" :> groupby_agg(df, variant)) @@ views
            /\ Proceed("CategoryMetrics")
    /\ UNCHANGED <<variant, source, invocations, run, df, prev>>

\* The column the bubble sizes are read from.
PerformanceSize(v) == IF v = "hello" THEN "Absolute Profit" ELSE "Profit Margin"

MatrixSize(v) == IF v = "hello" THEN "Absolute Profit" ELSE "Profit"

\* hello.py 160-180, superstore_analysis.py 132-151
ChartCategoryPerformance ==
    Plot("ChartCategoryPerformance", <<>>, "fig_category_performance",
         {}, {},
         \A i \in 1..Len(views["category_metrics"]) :
             ValidSize(views["category_metrics"][i][PerformanceSize(variant)]),
         Insights)

\* hello.py 183-188, superstore_analysis.py 154-160
TemporalData ==
    /\ pc = "TemporalData"
    /\ shown' = shown \o << Text("# Act 3: The Complex Interplay"),
                           Text("## Temporal Performance by Category") >>
    /\ IF ~({"Order Date", "Category", "Sales"} \subseteq df.columns)
       THEN Raise("KeyError") /\ views' = views
       ELSE IF groupby_temporal(df, variant).raises
       THEN (\E e \in BinningErrors : Raise(e)) /\ views' = views
       ELSE /\ views' = ("temporal_data" :> groupby_temporal(df, variant).view) @@ views
            /\ Proceed("TemporalData")
    /\ UNCHANGED <<variant, source, invocations, run, df, prev>>

\* hello.py 190-222, superstore_analysis.py 158-179
ChartTemporal ==
    Plot("ChartTemporal", <<>>, "fig_temporal", {}, {}, TRUE, Insights)

\* hello.py 225-283, superstore_analysis.py 182-239
ChartMatrix ==
    Plot("ChartMatrix",
         << Text("# Final Act: The Path Forward"), Text("## Strategic Opportunities Matrix") >>,
         "fig_matrix",
         {"Sales", "Profit Margin", "Category", "Region", MatrixSize(variant)},
         df.columns,
         \A i \in 1..Len(df.rows) : df.rows[i][MatrixSize(variant)] >= 0,
         << Text("### Key Strategic Insights"), Text("## Your Next Steps") >>)

\* hello.py 286
ShowTable ==
    /\ pc = "ShowTable"
    /\ shown' = Append(shown, Table("df"))
    /\ Proceed("ShowTable")
    /\ UNCHANGED <<variant, source, invocations, run, df, views, prev>>

RerunMutantKeepViews ==
    /\ pc \in {"done", "failed"}
    /\ run < invocations
    /\ run' = run + 1
    /\ prev' = views
    /\ pc' = "Sidebar"
    /\ error' = ""
    /\ df' = NoTable
    /\ shown' = <<>>
    /\ log' = <<>>
    /\ UNCHANGED <<variant, source, invocations, views>>

\* The script is invoked again on the same source: a new process, whose
\* memory holds nothing of the one before.  prev records what the finished
\* invocation had built.
Rerun ==
    /\ pc \in {"done", "failed"}
    /\ run < invocations
    /\ run' = run + 1
    /\ prev' = views
    /\ pc' = "Sidebar"
    /\ error' = ""
    /\ df' = NoTable
    /\ views' = NoViews
    /\ shown' = <<>>
    /\ log' = <<>>
    /\ UNCHANGED <<variant, source, invocations>>

Next ==
    \/ Sidebar
    \/ Load
    \/ CoerceOrderDate
    \/ CoerceSales
    \/ CoerceProfit
    \/ DeriveProfitMargin
    \/ DeriveAbsoluteProfit
    \/ ChartSales
    \/ ChartProfit
    \/ CountByCategory
    \/ ChartSalesProfit
    \/ ChartRegion
    \/ CategoryMetrics
    \/ ChartCategoryPerformance
    \/ TemporalData
    \/ ChartTemporal
    \/ ChartMatrix
    \/ ShowTable
    \/ Rerun

Spec == Init /\ [][Next]_vars

\* ================================================================ claims
\* What the claims read off a state.
Built(name) == name \in DOMAIN views

Derived(c) == c \in df.columns

NRows == Len(source.rows)

\* The number a source cell stands for.
SourceNumber(i, c) == to_numeric(source.rows[i][c])

RECURSIVE SumOver(_, _)
SumOver(I, f) ==
    IF I = {} THEN 0
    ELSE LET i == CHOOSE x \in I : TRUE IN f[i] + SumOver(I \ {i}, f)

\* The source rows whose category is c.
RowsOfCategory(c) == {i \in 1..NRows : source.rows[i]["Category"] = c}

\* The distinct category values present in the source (an empty cell is
\* the absence of a value).
InputCategories == {source.rows[i]["Category"] : i \in 1..NRows} \ {NULL}

Charts(items) == SelectSeq(items, LAMBDA x : x.kind = "chart")

\* The statement that raised, in a failed run.
FailedAt == IF log = <<>> THEN "Sidebar" ELSE After(variant, log[Len(log)])

\* ---------------------------------------------------------------------
\* C1: once Profit Margin is derived (in either script), every row with
\* Sales # 0 has a finite Profit Margin with Profit Margin * Sales = Profit,
\* and every row with Sales = 0 has an infinite or NaN marker (+inf, -inf or
\* NaN by the sign of Profit), never a number put in its place.
C1_ProfitMargin ==
    Derived("Profit Margin") =>
        /\ Len(df.rows) = NRows
        /\ \A i \in 1..Len(df.rows) :
              LET r == df.rows[i]
                  pm == r["Profit Margin"]
              IN /\ r["Sales"] = SourceNumber(i, "Sales")
                 /\ r["Profit"] = SourceNumber(i, "Profit")
                 /\ IF r["Sales"] # 0
                    THEN pm.d > 0 /\ pm.n * r["Sales"] = r["Profit"] * pm.d
                    ELSE pm.d = 0 /\ pm.n = Sign(r["Profit"])

C1_Witness ==
    /\ Derived("Profit Margin")
    /\ \E i \in 1..Len(df.rows) : df.rows[i]["Sales"] = 0 /\ df.rows[i]["Profit Margin"] = PosInf
    /\ \E i \in 1..Len(df.rows) :
          df.rows[i]["Sales"] = 50 /\ df.rows[i]["Profit Margin"] = [n |-> 0 - 1, d |-> 5]

\* ---------------------------------------------------------------------
\* C2: the category aggregate has exactly one row per distinct category
\* value of the input, and the row's Sales and Profit are the sums of the
\* Sales and Profit of the input rows of that category.
C2_CategoryAggregate ==
    Built("category_metrics") =>
        LET m == views["category_metrics"]
        IN /\ Len(m) = Cardinality(InputCategories)
           /\ {m[j]["Category"] : j \in 1..Len(m)} = InputCategories
           /\ \A j \in 1..Len(m) :
                 LET I == RowsOfCategory(m[j]["Category"])
                 IN /\ m[j]["Sales"] = SumOver(I, [i \in I |-> SourceNumber(i, "Sales")])
                    /\ m[j]["Profit"] = SumOver(I, [i \in I |-> SourceNumber(i, "Profit")])

C2_Witness ==
    /\ Built("category_metrics")
    /\ Len(views["category_metrics"]) = 2
    /\ \E c \in InputCategories : Cardinality(RowsOfCategory(c)) = 2
    /\ \E j \in 1..2 : views["category_metrics"][j]["Sales"] = 150

\* ---------------------------------------------------------------------
\* C10: once Absolute Profit is derived (hello.py; the other script derives
\* no such column), every row's Absolute Profit is |Profit|: non-negative,
\* Profit itself when Profit >= 0 and -Profit otherwise.
C10_AbsoluteProfit ==
    /\ (variant = "hello" /\ "DeriveAbsoluteProfit" \in Range(log)) => Derived("Absolute Profit")
    /\ Derived("Absolute Profit") =>
          /\ Len(df.rows) = NRows
          /\ \A i \in 1..Len(df.rows) :
                LET p == SourceNumber(i, "Profit")
                    a == df.rows[i]["Absolute Profit"]
                IN /\ df.rows[i]["Profit"] = p
                   /\ a >= 0
                   /\ (p >= 0 => a = p)
                   /\ (p < 0 => a = 0 - p)

C10_Witness ==
    /\ Derived("Absolute Profit")
    /\ \E i \in 1..Len(df.rows) : df.rows[i]["Profit"] = 0 - 10 /\ df.rows[i]["Absolute Profit"] = 10
    /\ \E i \in 1..Len(df.rows) : df.rows[i]["Profit"] = 20 /\ df.rows[i]["Absolute Profit"] = 20

\* ---------------------------------------------------------------------
\* The bucket and category an input row falls in.
InputDate(i) == to_datetime(source.rows[i]["Order Date"])

InputKey(i) == <<Bucket(variant, InputDate(i)), source.rows[i]["Category"]>>

ViewKey(r) == <<r["Order Date"], r["Category"]>>

\* The input rows that have both a date and a category.
InputGrouped == {i \in 1..NRows : source.rows[i]["Order Date"] # NULL
                                    /\ source.rows[i]["Category"] # NULL}

TemporalTotal(t) == SumOver(1..Len(t), [j \in 1..Len(t) |-> t[j]["Sales"]])

\* C3 as stated: no (bucket, category) pair of the temporal aggregate is
\* without an input row, every input row is counted in exactly one pair, and
\* the aggregate's Sales add up to the Sales of all input rows.
C3_Original ==
    Built("temporal_data") =>
        LET t == views["temporal_data"]
        IN /\ \A j \in 1..Len(t) : \E i \in 1..NRows : InputKey(i) = ViewKey(t[j])
           /\ \A i \in 1..NRows :
                 Cardinality({j \in 1..Len(t) : ViewKey(t[j]) = InputKey(i)}) = 1
           /\ TemporalTotal(t) =
                 SumOver(1..NRows, [i \in 1..NRows |-> SourceNumber(i, "Sales")])

\* C3 amended: no pair of the temporal aggregate is without an input row;
\* every input row that has both an Order Date and a Category is counted in
\* exactly one pair, a row missing either is counted in none; each pair's
\* Sales is the sum over its rows, so the aggregate's Sales add up to the
\* Sales of the input rows that have both.
C3_TemporalAggregate ==
    Built("temporal_data") =>
        LET t == views["temporal_data"]
        IN /\ \A j \in 1..Len(t) : \E i \in InputGrouped : InputKey(i) = ViewKey(t[j])
           /\ \A i \in InputGrouped :
                 Cardinality({j \in 1..Len(t) : ViewKey(t[j]) = InputKey(i)}) = 1
           /\ \A i \in (1..NRows) \ InputGrouped :
                 \A j \in 1..Len(t) : ViewKey(t[j]) # InputKey(i)
           /\ \A j \in 1..Len(t) :
                 LET I == {i \in InputGrouped : InputKey(i) = ViewKey(t[j])}
                 IN t[j]["Sales"] = SumOver(I, [i \in I |-> SourceNumber(i, "Sales")])
           /\ TemporalTotal(t) =
                 SumOver(InputGrouped, [i \in InputGrouped |-> SourceNumber(i, "Sales")])

C3_Witness ==
    /\ Built("temporal_data")
    /\ NRows = 3
    /\ Cardinality(InputGrouped) = 2
    /\ Len(views["temporal_data"]) = 1
    /\ views["temporal_data"][1]["Sales"] = 150

\* ---------------------------------------------------------------------
Scenario ==
    << Row("2023-01-05", "100", "20", "Tech", "West", "0"),
       Row("2023-01-20", "50", "-10", "Tech", "East", "20"),
       Row("2023-02-01", "200", "40", "Office", "West", "0") >>

IsScenario == source.columns = Columns /\ source.rows = Scenario

InJanuary2023(dt) == dt.y = 2023 /\ dt.m = 1

\* The rows of the temporal aggregate for Tech in January 2023.
JanuaryTech(t) ==
    SelectSeq(t, LAMBDA r : r["Category"] = "Tech" /\ InJanuary2023(r["Order Date"]))

TechTotals ==
    Built("category_metrics") =>
        \E j \in 1..Len(views["category_metrics"]) :
            LET r == views["category_metrics"][j]
            IN r["Category"] = "Tech" /\ r["Sales"] = 150 /\ r["Profit"] = 10

\* C5 as stated: on the scenario's rows the Tech aggregate row has Sales 150
\* and Profit 10, and the temporal aggregate holds a single January-2023
\* Tech bucket, with Sales 150.
C5_Original ==
    IsScenario =>
        /\ TechTotals
        /\ Built("temporal_data") =>
              LET jt == JanuaryTech(views["temporal_data"])
              IN Len(jt) = 1 /\ jt[1]["Sales"] = 150

\* C5 amended: on the scenario's rows the Tech aggregate row has Sales 150
\* and Profit 10 in both scripts; hello.py's temporal aggregate holds a
\* single January-2023 Tech bucket (labelled 2023-01-31) with Sales 150,
\* while superstore_analysis.py groups by date and holds two January Tech
\* rows, 2023-01-05 with 100 and 2023-01-20 with 50, 150 together.
C5_Scenario ==
    IsScenario =>
        /\ TechTotals
        /\ Built("temporal_data") =>
              LET jt == JanuaryTech(views["temporal_data"])
              IN IF variant = "hello"
                 THEN /\ Len(jt) = 1
                      /\ jt[1]["Order Date"] = [y |-> 2023, m |-> 1, d |-> 31]
                      /\ jt[1]["Sales"] = 150
                 ELSE /\ Len(jt) = 2
                      /\ jt[1]["Order Date"] = [y |-> 2023, m |-> 1, d |-> 5]
                      /\ jt[1]["Sales"] = 100
                      /\ jt[2]["Order Date"] = [y |-> 2023, m |-> 1, d |-> 20]
                      /\ jt[2]["Sales"] = 50
                      /\ TemporalTotal(jt) = 150

C5_Witness ==
    /\ IsScenario
    /\ variant = "hello"
    /\ Built("category_metrics")
    /\ Built("temporal_data")
    /\ Len(views["temporal_data"]) = 2

\* ---------------------------------------------------------------------
\* A source with every expected column and every cell parseable.
SourceClean ==
    /\ source.columns = Columns
    /\ \A i \in 1..NRows :
          /\ IsDateText(source.rows[i]["Order Date"])
          /\ \A c \in NumericColumns : IsNumberText(source.rows[i][c])

\* The categories that consist of a single row, whose Sales is 0.
LoneZeroSales ==
    {c \in InputCategories :
        /\ Cardinality(RowsOfCategory(c)) = 1
        /\ \A i \in RowsOfCategory(c) : SourceNumber(i, "Sales") = 0}

\* C8: for a category that consists of a single row with Sales = 0, the
\* row's Profit Margin is +inf, -inf or NaN, the run fails neither at the
\* derive statement nor at the category aggregate, and the aggregate row of
\* the category carries that same value as its mean Profit Margin.
C8_ZeroSales ==
    SourceClean =>
        \A c \in LoneZeroSales :
            LET i == CHOOSE x \in RowsOfCategory(c) : TRUE
            IN /\ Derived("Profit Margin") =>
                     df.rows[i]["Profit Margin"] \in {PosInf, NegInf, NaN}
               /\ pc = "failed" =>
                     FailedAt \notin {"DeriveProfitMargin", "DeriveAbsoluteProfit",
                                      "CategoryMetrics"}
               /\ Built("category_metrics") =>
                     \E j \in 1..Len(views["category_metrics"]) :
                         LET r == views["category_metrics"][j]
                         IN /\ r["Category"] = c
                            /\ r["Profit Margin"] = df.rows[i]["Profit Margin"]
                            /\ ~IsFinite(r["Profit Margin"])

C8_Witness ==
    /\ SourceClean
    /\ Built("category_metrics")
    /\ "Furniture" \in LoneZeroSales
    /\ Len(views["category_metrics"]) = 2
    /\ views["category_metrics"][1]["Profit Margin"] = PosInf

\* ---------------------------------------------------------------------
\* The position of a completed statement in this run, 0 when not completed.
Pos(step) == IF step \in Range(log) THEN CHOOSE i \in 1..Len(log) : log[i] = step ELSE 0

\* Statement b has completed only after statement a has.
Before(a, b) == b \in Range(log) => (a \in Range(log) /\ Pos(a) < Pos(b))

Aggregates == {"CountByCategory", "CategoryMetrics", "TemporalData"}

\* The statement that builds each view.
Builder(name) ==
    CASE name = "category_counts" -> "CountByCategory"
      [] name = "category_metrics" -> "CategoryMetrics"
      [] name = "temporal_data" -> "TemporalData"

DerivedColumns(v) ==
    IF v = "hello" THEN {"Profit Margin", "Absolute Profit"} ELSE {"Profit Margin"}

\* C6: in every run the load precedes the type coercions, which precede the
\* derivation of Profit Margin (and Absolute Profit); every derived column
\* exists before any aggregate view is built; and a view in memory was built
\* by a statement of this run: a run starts with none, whatever an earlier
\* run built.
C6_Ordering ==
    /\ Before("Load", "CoerceOrderDate")
    /\ Before("CoerceOrderDate", "DeriveProfitMargin")
    /\ variant = "hello" =>
          /\ Before("Load", "CoerceSales")
          /\ Before("Load", "CoerceProfit")
          /\ Before("CoerceSales", "DeriveProfitMargin")
          /\ Before("CoerceProfit", "DeriveProfitMargin")
          /\ Before("DeriveProfitMargin", "DeriveAbsoluteProfit")
          /\ \A a \in Aggregates : Before("DeriveAbsoluteProfit", a)
    /\ \A a \in Aggregates : Before("DeriveProfitMargin", a)
    /\ \A a \in Aggregates :
          (pc = a \/ a \in Range(log)) => DerivedColumns(variant) \subseteq df.columns
    /\ \A n \in DOMAIN views :
          /\ Builder(n) \in Range(log)
          /\ DerivedColumns(variant) \subseteq df.columns
    /\ log = <<>> => views = NoViews

C6_Witness ==
    /\ run = 2
    /\ variant = "hello"
    /\ pc = "done"
    /\ DOMAIN views = {"category_counts", "category_metrics", "temporal_data"}
    /\ DOMAIN prev = DOMAIN views

\* ---------------------------------------------------------------------
\* The cell the load and the coercions make of source cell (i, c) in
\* hello.py.
Loaded(i, c) ==
    IF c = "Order Date" THEN to_datetime(source.rows[i][c])
    ELSE IF c \in {"Sales", "Profit"} THEN to_numeric(source.rows[i][c])
    ELSE source.rows[i][c]

NewColumn(step) ==
    IF step = "DeriveProfitMargin" THEN "Profit Margin" ELSE "Absolute Profit"

\* One step leaves the table as the claim says.
FrameStep ==
    /\ (pc \in {"DeriveProfitMargin", "DeriveAbsoluteProfit"} /\ pc' \notin {pc, "failed"}) =>
          /\ df'.columns = df.columns \cup {NewColumn(pc)}
          /\ NewColumn(pc) \notin df.columns
          /\ Len(df'.rows) = Len(df.rows)
          /\ \A i \in 1..Len(df.rows) : \A c \in df.columns : df'.rows[i][c] = df.rows[i][c]
    /\ pc \in Aggregates => df' = df
    /\ (pc = "ShowTable" /\ pc' = "done") =>
          /\ df' = df
          /\ Len(df.rows) = NRows
          /\ \A i \in 1..NRows : \A c \in source.columns : df.rows[i][c] = Loaded(i, c)

\* C7: the derive statements only add Profit Margin and Absolute Profit,
\* keeping every row, its place and its other cells; the count, category
\* aggregate and temporal aggregate statements leave the table untouched; so
\* the table handed to the final display has the rows of the load, in the
\* load's order.
C7_Frame == [][FrameStep]_vars

C7_Witness ==
    /\ pc = "done"
    /\ variant = "hello"
    /\ shown[Len(shown)] = Table("df")
    /\ NRows = 3
    /\ source.rows[1] # source.rows[3]
    /\ \A i \in 1..NRows : df.rows[i]["Category"] = source.rows[i]["Category"]

\* ---------------------------------------------------------------------
Missing(c) == source # Unavailable /\ c \notin source.columns

BadCells(c) ==
    /\ c \in source.columns
    /\ \E i \in 1..NRows : source.rows[i][c] \in {BadNumber, BadDate}

AnyFault == \E c \in Columns : Missing(c) \/ BadCells(c)

\* The faults of the columns the load, coercion and derive statements read.
EarlyFault == \E c \in {"Order Date", "Sales", "Profit"} : Missing(c) \/ BadCells(c)

ChartNames == [i \in 1..Len(Charts(shown)) |-> Charts(shown)[i].name]

\* C4 as stated: with any expected column missing, a non-numeric value in a
\* numeric column or an unparseable date, the run does not complete, and
\* when it has failed no chart has been handed to the presentation layer.
C4_Original ==
    AnyFault => (pc # "done" /\ (pc = "failed" => Charts(shown) = <<>>))

\* C4 amended: a missing Order Date, Sales or Profit column, a non-numeric
\* Sales or Profit value, or an unparseable date is fatal in the load,
\* coercion or derive statements, before any chart is handed over, in both
\* scripts.  A missing Category is fatal at the count-by-category statement,
\* after the two histograms were handed over, and a missing Region at the
\* regional box plot, after four charts.  Discount is never read: without
\* it, or with a non-numeric Discount, the run fails only where it would
\* fail anyway (a rejected marker size in superstore_analysis.py, month
\* bins without any date in hello.py).
C4_FatalErrors ==
    /\ EarlyFault =>
          /\ pc # "done"
          /\ Charts(shown) = <<>>
          /\ pc = "failed" =>
                FailedAt \in {"CoerceOrderDate", "CoerceSales", "CoerceProfit",
                              "DeriveProfitMargin"}
    /\ Missing("Category") =>
          /\ pc # "done"
          /\ pc = "failed" =>
                /\ FailedAt = "CountByCategory"
                /\ ChartNames = <<"fig_sales", "fig_profit">>
    /\ Missing("Region") =>
          /\ pc # "done"
          /\ pc = "failed" =>
                /\ FailedAt = "ChartRegion"
                /\ ChartNames = <<"fig_sales", "fig_profit", "fig_category", "fig_sales_profit">>
    /\ (Missing("Discount") \/ BadCells("Discount")) =>
          (pc = "failed" =>
              \/ /\ variant = "superstore_analysis"
                 /\ FailedAt \in {"ChartCategoryPerformance", "ChartMatrix"}
                 /\ error = "ValueError"
              \/ /\ variant = "hello"
                 /\ FailedAt = "TemporalData"
                 /\ error \in BinningErrors
                 /\ \A i \in 1..NRows : source.rows[i]["Order Date"] = NULL)

C4_Witness ==
    /\ pc = "failed"
    /\ Missing("Category")
    /\ error = "KeyError"
    /\ ChartNames = <<"fig_sales", "fig_profit">>

\* ---------------------------------------------------------------------
\* The table script v has when it builds its temporal aggregate from the
\* source src: the load and the coercions of the columns the grouping reads.
Prepared(v, src) ==
    IF v = "hello"
    THEN LET t0 == get_df(src)
             t1 == SetColumn(t0, "Order Date", "datetime64", AsDates(t0, "Order Date"))
         IN SetColumn(t1, "Sales", NumberDtype(t1, "Sales"), AsNumbers(t1, "Sales"))
    ELSE LET t0 == read_csv(src)
         IN SetColumn(t0, "Order Date", "datetime64", AsDates(t0, "Order Date"))

\* The two scripts' temporal aggregates of the one source.
Monthly == groupby_temporal(Prepared("hello", source), "hello")

PerDate == groupby_temporal(Prepared("superstore_analysis", source), "superstore_analysis")

MonthOf(dt) == <<dt.y, dt.m>>

\* The rows of the per-date aggregate p of category c whose date lies in
\* the month of dt.
PerDateIn(p, dt, c) ==
    {k \in 1..Len(p) : p[k]["Category"] = c /\ MonthOf(p[k]["Order Date"]) = MonthOf(dt)}

\* C11: on one source, hello.py's monthly temporal aggregate is a coarsening
\* of superstore_analysis.py's per-date one: a (month, category) row exists
\* in the monthly aggregate exactly when a per-date row of that category has
\* its date in that month, there is one such monthly row, labelled with the
\* month's end, and its Sales is the sum of those per-date rows' Sales.
\* Where hello.py's grouping raises instead (no row has a date), the
\* per-date aggregate has no row either.
C11_Coarsening ==
    LET M == Monthly
        P == PerDate
        m == M.view
        p == P.view
        raised == pc = "failed" /\ FailedAt = "TemporalData"
    IN /\ Built("temporal_data") =>
             /\ ~P.raises
             /\ variant = "hello" => ~M.raises
             /\ views["temporal_data"] = (IF variant = "hello" THEN m ELSE p)
       /\ raised => (variant = "hello" /\ M.raises)
       /\ (Built("temporal_data") \/ raised) =>
             /\ M.raises => p = <<>>
             /\ \A j \in 1..Len(m) :
                   LET D == PerDateIn(p, m[j]["Order Date"], m[j]["Category"])
                   IN /\ D # {}
                      /\ m[j]["Order Date"].d =
                            DaysInMonth(m[j]["Order Date"].y, m[j]["Order Date"].m)
                      /\ m[j]["Sales"] = SumOver(D, [k \in D |-> p[k]["Sales"]])
             /\ \A k \in 1..Len(p) :
                   Cardinality({j \in 1..Len(m) :
                                   /\ m[j]["Category"] = p[k]["Category"]
                                   /\ MonthOf(m[j]["Order Date"]) =
                                         MonthOf(p[k]["Order Date"])}) = 1

C11_Witness ==
    /\ Built("temporal_data")
    /\ variant = "superstore_analysis"
    /\ ~Monthly.raises
    /\ Len(PerDate.view) = 3
    /\ Len(Monthly.view) = 2
    /\ Monthly.view[1]["Sales"] = 150
    /\ Cardinality(InputGrouped) = 3

====
